---- MODULE Spec2Model ----
(***************************************************************************)
(* ImageAnalysisService (backend/app/services/image_analysis_service.py):  *)
(* one outbound vision request per analyze_image call, the response parser *)
(* with its strict rejection gate and knowledge-base matching, and the     *)
(* fallback result.                                                        *)
(*                                                                         *)
(* Python strings that the code searches, measures or concatenates are     *)
(* sequences of one-character strings.  The raw response text is a         *)
(* sequence of lexical tokens:                                             *)
(*    "{" "}"  braces;                                                     *)
(*    "p"      prose holding no brace;                                     *)
(*    "m"      a comma-separated list of members over the six keys of the  *)
(*             prompt's schema (its keys and values are the field `m` of   *)
(*             the text);                                                  *)
(*    "k"      a member key outside the schema, followed by its value.     *)
(***************************************************************************)
EXTENDS Integers, Sequences, FiniteSets, TLC

VARIABLES pc, content, result, requests, parses, log, pest_database,
          disease_database, probe, probe_result

\* pc                where the call in progress stands: "idle" (none), "chat",
\*                   "parse", "except", "return"
\* content           response['message']['content'] of the call in progress
\* result            what the call returns
\* requests, parses  calls of ollama.chat and of _parse_llm_analysis made by
\*                   the call in progress
\* log               the exception in flight in analyze_image, then the last
\*                   logger.error record of the call: <<message, exception>>
\* pest_database, disease_database   the tables of the service
\* probe, probe_result   one text, and the result the parser first gave for it
vars == <<pc, content, result, requests, parses, log, pest_database,
          disease_database, probe, probe_result>>

\* Longest raw response text, in tokens.
MaxTokens == 5

(***************************************************************************)
(* Python values                                                           *)
(***************************************************************************)
None == [t |-> "none"]
Str(chars) == [t |-> "str", v |-> chars]
Num(n) == [t |-> "num", v |-> n]
Bool(b) == [t |-> "bool", v |-> b]

IsStr(x) == x.t = "str"

\* bool(x)
Truthy(x) ==
  CASE x.t = "none" -> FALSE
    [] x.t = "bool" -> x.v
    [] x.t = "num"  -> x.v # 0
    [] x.t = "str"  -> x.v # <<>>

\* x < n for an int n: defined for numbers (bool is a subclass of int), TypeError otherwise
Comparable(x) == x.t \in {"num", "bool"}
\* variant: the comparison written <=
LessThanOrEqual(x, n) == IF x.t = "bool" THEN (IF x.v THEN 1 ELSE 0) <= n ELSE x.v <= n
LessThan(x, n) == IF x.t = "bool" THEN (IF x.v THEN 1 ELSE 0) < n ELSE x.v < n

\* dict.get(key, default)
Get(data, key, default) == IF key \in DOMAIN data THEN data[key] ELSE default

(***************************************************************************)
(* str methods                                                             *)
(***************************************************************************)
LowerCase == <<"a","b","c","d","e","f","g","h","i","j","k","l","m","n","o","p","q","r","s","t","u","v","w","x","y","z">>
UpperCase == <<"A","B","C","D","E","F","G","H","I","J","K","L","M","N","O","P","Q","R","S","T","U","V","W","X","Y","Z">>

ToUpper(c) == IF \E i \in 1..Len(LowerCase) : LowerCase[i] = c
              THEN UpperCase[CHOOSE i \in 1..Len(LowerCase) : LowerCase[i] = c]
              ELSE c
ToLower(c) == IF \E i \in 1..Len(UpperCase) : UpperCase[i] = c
              THEN LowerCase[CHOOSE i \in 1..Len(UpperCase) : UpperCase[i] = c]
              ELSE c

\* s.upper(), s.lower()
Upper(s) == [i \in 1..Len(s) |-> ToUpper(s[i])]
Lower(s) == [i \in 1..Len(s) |-> ToLower(s[i])]

\* s.replace(a, b) for one-character a and b
Replace(s, a, b) == [i \in 1..Len(s) |-> IF s[i] = a THEN b ELSE s[i]]

\* sub in s
Contains(sub, s) ==
  \E i \in 0..(Len(s) - Len(sub)) : SubSeq(s, i + 1, i + Len(sub)) = sub

(***************************************************************************)
(* String literals of the service                                          *)
(***************************************************************************)
STR_PEST == <<"P","E","S","T">>
STR_DISEASE == <<"D","I","S","E","A","S","E">>
STR_healthy == <<"h","e","a","l","t","h","y">>
STR_NonAgriculturalObject == <<"N","o","n","-","A","g","r","i","c","u","l","t","u","r","a","l"," ","O","b","j","e","c","t">>
STR_NotAgricultural == <<"N","o","t"," ","A","g","r","i","c","u","l","t","u","r","a","l">>
STR_Apology == <<"I","'","m"," ","s","o","r","r","y",","," ","I"," ","c","o","u","l","d","n","'","t"," ","r","e","c","o","g","n","i","z","e"," ","a"," ","p","l","a","n","t"," ","o","r"," ","c","r","o","p"," ","i","n"," ","t","h","i","s"," ","i","m","a","g","e",".">>
STR_UnknownCrop == <<"U","n","k","n","o","w","n"," ","C","r","o","p">>
STR_Unknown == <<"U","n","k","n","o","w","n">>
STR_AnalysisFailed == <<"A","n","a","l","y","s","i","s"," ","F","a","i","l","e","d">>
STR_SystemError == <<"S","y","s","t","e","m"," ","E","r","r","o","r">>
STR_FallbackSummary == <<"I","'","m"," ","s","o","r","r","y",","," ","I"," ","c","o","u","l","d","n","'","t"," ","a","n","a","l","y","z","e"," ","t","h","a","t"," ","i","m","a","g","e"," ","c","l","e","a","r","l","y","."," ","P","l","e","a","s","e"," ","t","r","y"," ","a","g","a","i","n"," ","w","i","t","h"," ","a"," ","b","e","t","t","e","r"," ","p","h","o","t","o",".">>
STR_ThisResembles == <<" ","T","h","i","s"," ","r","e","s","e","m","b","l","e","s"," ">>
STR_Dot == <<".">>
STR_The == <<"T","h","e"," ">>
STR_LooksHealthy == <<" ","l","o","o","k","s"," ","h","e","a","l","t","h","y","."," ","K","e","e","p"," ","u","p"," ","t","h","e"," ","g","o","o","d"," ","w","o","r","k","!">>

RejectRecommendations == <<"Please upload a clear photo of a crop, plant, or pest.">>
DefaultRecommendations == <<"Monitor the crop closely.", "Consult your local technician.">>
HealthyRecommendations == <<"Continue Good Agricultural Practices (GAP).", "Regular monitoring.">>

(***************************************************************************)
(* Knowledge base: a dict in insertion order is a sequence of               *)
(* (key, info) items.                                                      *)
(***************************************************************************)
build_pest_database ==
  << [key |-> <<"a","r","m","y","w","o","r","m">>,
      info |-> [scientific_name |-> "Spodoptera litura / frugiperda",
                local_name |-> <<"H","a","r","a","b","a","s"," ","/"," ","U","o","d">>,
                crops_affected |-> <<"rice", "corn", "onion">>,
                description |-> "Larvae feed on leaves leaving only veins. Major pest in Nueva Ecija and Pangasinan.",
                control_methods |-> <<"Biological control (Trichogramma)", "Spray Bacillus thuringiensis (Bt)", "Use pheromone traps">>]],
     [key |-> <<"r","i","c","e","_","b","l","a","c","k","_","b","u","g">>,
      info |-> [scientific_name |-> "Scotinophara coarctata",
                local_name |-> <<"I","t","i","m"," ","n","a"," ","A","t","a","n","g","y","a">>,
                crops_affected |-> <<"rice">>,
                description |-> "Sucks sap from the base of the plant causing 'bugburn'. Common in Bicol and Visayas.",
                control_methods |-> <<"Light trapping during full moon", "Herding ducks in the field", "Submerge eggs by raising water level">>]],
     [key |-> <<"b","r","o","w","n","_","p","l","a","n","t","h","o","p","p","e","r">>,
      info |-> [scientific_name |-> "Nilaparvata lugens",
                local_name |-> <<"K","a","y","u","m","a","n","g","g","i","n","g"," ","A","t","a","n","g","y","a">>,
                crops_affected |-> <<"rice">>,
                description |-> "Causes 'hopperburn' (browning and drying of crops). Transmits Ragged Stunt Virus.",
                control_methods |-> <<"Use resistant varieties (NSIC Rc)", "Avoid excessive nitrogen fertilizer", "Synchronous planting">>]],
     [key |-> <<"c","o","r","n","_","b","o","r","e","r">>,
      info |-> [scientific_name |-> "Ostrinia furnacalis",
                local_name |-> <<"U","o","d"," ","n","g"," ","M","a","i","s">>,
                crops_affected |-> <<"corn">>,
                description |-> "Larvae bore into stalks and ears. The most destructive corn pest in PH.",
                control_methods |-> <<"Detasseling", "Trichogramma release", "Planting Bt Corn (if approved)">>]],
     [key |-> <<"c","o","c","o","l","i","s","a","p">>,
      info |-> [scientific_name |-> "Aspidiotus rigidus",
                local_name |-> <<"C","o","c","o","l","i","s","a","p">>,
                crops_affected |-> <<"coconut", "lanzones">>,
                description |-> "Scale insects covering leaves, blocking photosynthesis. Historic outbreak in CALABARZON.",
                control_methods |-> <<"Pruning and burning affected parts", "Systemic trunk injection (FPA approved)", "Release of biocontrol agents">>]],
     [key |-> <<"m","a","n","g","o","_","c","e","c","i","d","_","f","l","y">>,
      info |-> [scientific_name |-> "Procontarinia spp.",
                local_name |-> <<"K","u","r","i","k","o","n","g">>,
                crops_affected |-> <<"mango">>,
                description |-> "Causes circular, brown, scab-like lesions on fruit skin.",
                control_methods |-> <<"Pruning overcrowded branches", "Bagging fruits early", "Proper orchard sanitation">>]],
     [key |-> <<"s","t","e","m","_","b","o","r","e","r">>,
      info |-> [scientific_name |-> "Scirpophaga incertulas",
                local_name |-> <<"A","k","s","i","p"," ","/"," ","S","t","e","m"," ","B","o","r","e","r">>,
                crops_affected |-> <<"rice">>,
                description |-> "Larvae bore into stem causing 'deadheart' (young stage) or 'whitehead' (reproductive stage).",
                control_methods |-> <<"Light traps", "Pheromone traps", "Conservation of natural enemies">>]] >>

build_disease_database ==
  << [key |-> <<"r","i","c","e","_","b","l","a","s","t">>,
      info |-> [scientific_name |-> "Magnaporthe oryzae",
                local_name |-> <<"L","e","e","g","-","l","e","e","g"," ","(","N","e","c","k"," ","B","l","a","s","t",")">>,
                crops_affected |-> <<"rice">>,
                description |-> "Diamond-shaped lesions on leaves or rotting of the panicle neck.",
                control_methods |-> <<"Avoid excessive nitrogen", "Keep field flooded", "Use fungicides (Tricyclazole) as last resort">>]],
     [key |-> <<"t","u","n","g","r","o">>,
      info |-> [scientific_name |-> "Rice Tungro Bacilliform Virus",
                local_name |-> <<"T","u","n","g","r","o">>,
                crops_affected |-> <<"rice">>,
                description |-> "Yellow-orange discoloration of leaves, stunted growth. Vectored by Green Leafhopper.",
                control_methods |-> <<"Plant resistant varieties (Matatag lines)", "Control leafhopper vectors", "Roguing (removal) of infected plants">>]],
     [key |-> <<"b","a","c","t","e","r","i","a","l","_","l","e","a","f","_","b","l","i","g","h","t">>,
      info |-> [scientific_name |-> "Xanthomonas oryzae",
                local_name |-> <<"K","u","y","o","g">>,
                crops_affected |-> <<"rice">>,
                description |-> "Yellowing and drying of leaf tips and margins. Common in wet season.",
                control_methods |-> <<"Balanced fertilization", "Proper drainage", "Clean field sanitation">>]],
     [key |-> <<"p","a","n","a","m","a","_","d","i","s","e","a","s","e">>,
      info |-> [scientific_name |-> "Fusarium oxysporum TR4",
                local_name |-> <<"F","u","s","a","r","i","u","m"," ","W","i","l","t">>,
                crops_affected |-> <<"banana">>,
                description |-> "Yellowing of older leaves, vascular discoloration. Major threat in Mindanao plantations.",
                control_methods |-> <<"Quarantine infected areas", "Disinfect tools/footwear", "Plant GCTCV-218 (resistant variety)">>]] >>

(***************************************************************************)
(* Raw model output: the values the vision model may put under each key of *)
(* the schema, and the texts it may return.                                *)
(***************************************************************************)
IN_Corn == <<"C","o","r","n">>
IN_StemBorer == <<"S","t","e","m"," ","B","o","r","e","r">>
IN_KurikongStemBorer == <<"s","t","e","m"," ","b","o","r","e","r",","," ","m","a","y","b","e"," ","k","u","r","i","k","o","n","g">>
IN_RiceBlast == <<"R","i","c","e"," ","B","l","a","s","t">>
IN_ArmywormTungro == <<"A","r","m","y","w","o","r","m"," ","a","n","d"," ","T","u","n","g","r","o">>
IN_TungroKuyog == <<"k","u","y","o","g"," ","o","r"," ","t","u","n","g","r","o">>
IN_NoIssue == <<"N","o","n","e">>
IN_Healthy == <<"H","e","a","l","t","h","y">>
IN_PestDetected == <<"P","e","s","t"," ","D","e","t","e","c","t","e","d">>
IN_diseasefound == <<"d","i","s","e","a","s","e"," ","f","o","u","n","d">>
IN_PestAndDisease == <<"P","e","s","t"," ","a","n","d"," ","D","i","s","e","a","s","e"," ","D","e","t","e","c","t","e","d">>
IN_LooksOK == <<"L","o","o","k","s"," ","O","K",".">>
IN_LooksFine == <<"L","o","o","k","s"," ","f","i","n","e">>
IN_ISeeRice == <<"I"," ","s","e","e"," ","r","i","c","e"," ","w","i","t","h"," ","s","t","e","m"," ","d","a","m","a","g","e",".">>
IN_LongAnswer == <<"I"," ","c","a","n","n","o","t"," ","a","n","a","l","y","z","e"," ","t","h","i","s","."," ","I","t"," ","l","o","o","k","s"," ","l","i","k","e"," ","a"," ","c","a","r",","," ","n","o","t"," ","a"," ","c","r","o","p",".">>
IN_high == <<"h","i","g","h">>

\* marks a key the member list does not hold
Absent == [t |-> "absent"]

Keys == {"is_agricultural", "plant_name", "detected_issue", "condition",
         "confidence_score", "natural_response"}

IsAgriculturalValues == {Absent, Bool(TRUE), Bool(FALSE)}
PlantNameValues == {Absent, Str(IN_Corn)}
DetectedIssueValues == {Absent, Str(IN_StemBorer), Str(IN_KurikongStemBorer), Str(IN_RiceBlast),
                        Str(IN_ArmywormTungro), Str(IN_TungroKuyog), Str(IN_NoIssue)}
ConditionValues == {Absent, Str(IN_Healthy), Str(IN_PestDetected), Str(IN_diseasefound),
                    Str(IN_PestAndDisease), Num(0)}
ConfidenceValues == {Absent, Num(39), Num(40), Str(IN_high)}
NaturalResponseValues == {Absent, None, Str(<<>>), Str(IN_LooksOK), Str(IN_LooksFine),
                          Str(IN_ISeeRice), Str(IN_LongAnswer)}

\* the JSON object a member list decodes to: the keys it holds, with their values
Members(c) == [k \in {k \in Keys : c[k] # Absent} |-> c[k]]

AllMembers ==
  {Members(c) : c \in [is_agricultural : IsAgriculturalValues,
                       plant_name : PlantNameValues,
                       detected_issue : DetectedIssueValues,
                       condition : ConditionValues,
                       confidence_score : ConfidenceValues,
                       natural_response : NaturalResponseValues]}

SampleMembers ==
  Members([is_agricultural |-> Bool(TRUE), plant_name |-> Str(IN_Corn),
           detected_issue |-> Str(IN_StemBorer), condition |-> Str(IN_PestDetected),
           confidence_score |-> Num(40), natural_response |-> Str(IN_ISeeRice)])

Tokens == {"{", "}", "p", "m", "k"}

Text(toks, m) == [t |-> "str", toks |-> toks, m |-> m]

\* prose, one JSON object, prose
FramedObject == <<"p", "{", "m", "}", "p">>

\* every token sequence up to MaxTokens around one member list, and every
\* member list inside one framed object
Texts ==
  {Text(toks, SampleMembers) : toks \in UNION {[1..n -> Tokens] : n \in 0..MaxTokens}}
  \cup {Text(FramedObject, m) : m \in AllMembers}

(***************************************************************************)
(* re.search(r'\{.*\}', content, re.DOTALL) and json.loads                 *)
(***************************************************************************)
NoMatch == <<>>

\* variant: the pattern written with a lazy .*? -- the match ends at the
\* first "}" after the first "{"
RegexSearchLazy(toks) ==
  LET starts == {i \in 1..Len(toks) :
                   toks[i] = "{" /\ \E j \in (i + 1)..Len(toks) : toks[j] = "}"}
  IN  IF starts = {} THEN NoMatch
      ELSE LET i == CHOOSE a \in starts : \A b \in starts : a <= b
               ends == {j \in (i + 1)..Len(toks) : toks[j] = "}"}
               j == CHOOSE a \in ends : \A b \in ends : a <= b
           IN  SubSeq(toks, i, j)

\* The leftmost position at which the pattern matches, and from it the
\* longest match: the greedy .* backtracks from the end of the text.
RegexSearch(toks) ==
  LET starts == {i \in 1..Len(toks) :
                   toks[i] = "{" /\ \E j \in (i + 1)..Len(toks) : toks[j] = "}"}
  IN  IF starts = {} THEN NoMatch
      ELSE LET i == CHOOSE a \in starts : \A b \in starts : a <= b
               ends == {j \in (i + 1)..Len(toks) : toks[j] = "}"}
               j == CHOOSE a \in ends : \A b \in ends : b <= a
           IN  SubSeq(toks, i, j)

\* Scans the members of an object from position i, after its "{": the
\* position after its closing "}", or 0 where the text is not JSON.
RECURSIVE JsonMembers(_, _)
JsonMembers(toks, i) ==
  IF i > Len(toks) THEN 0
  ELSE CASE toks[i] = "}" -> i + 1
         [] toks[i] = "m" -> JsonMembers(toks, i + 1)
         [] toks[i] = "k" ->
              IF i + 1 <= Len(toks) /\ toks[i + 1] = "{"
              THEN LET j == JsonMembers(toks, i + 2)
                   IN  IF j = 0 THEN 0 ELSE JsonMembers(toks, j)
              ELSE 0
         [] OTHER -> 0

\* json.loads(json_str) succeeds: json_str is one JSON object and nothing else
JsonValid(json_str) ==
  /\ Len(json_str) >= 2
  /\ json_str[1] = "{"
  /\ JsonMembers(json_str, 2) = Len(json_str) + 1

\* braces open before position i
Depth(toks, i) ==
  Cardinality({j \in 1..(i - 1) : toks[j] = "{"}) - Cardinality({j \in 1..(i - 1) : toks[j] = "}"})

\* The decoded object, restricted to the schema's keys (the code reads no
\* other key): the member list, when one stands at the top level of the object.
JsonLoads(json_str, m) ==
  IF \E i \in 1..Len(json_str) : json_str[i] = "m" /\ Depth(json_str, i) = 1
  THEN m
  ELSE <<>>

(***************************************************************************)
(* _get_fallback_analysis                                                  *)
(***************************************************************************)
get_fallback_analysis ==
  [plant_type |-> Str(STR_AnalysisFailed),
   pest_detected |-> FALSE,
   disease_detected |-> FALSE,
   health_status |-> Str(STR_SystemError),
   natural_summary |-> Str(STR_FallbackSummary),
   recommendations |-> <<>>,
   sources |-> <<>>]

(***************************************************************************)
(* _parse_llm_analysis                                                     *)
(***************************************************************************)
Raise(e) == [exc |-> e, ret |-> None]
Return(r) == [exc |-> "", ret |-> r]

\* str(x), format(x)
StrOf(x) ==
  CASE x.t = "str" -> x.v
    [] x.t = "none" -> <<"N","o","n","e">>

\* the result of the strict rejection gate
NonAgriculturalResult(data) ==
  [plant_type |-> Str(STR_NonAgriculturalObject),
   pest_detected |-> FALSE,
   disease_detected |-> FALSE,
   health_status |-> Str(STR_NotAgricultural),
   severity |-> "None",
   recommendations |-> RejectRecommendations,
   sources |-> <<>>,
   natural_summary |-> Get(data, "natural_response", Str(STR_Apology))]

\* variant: the disease test written as the elif of the pest test
DiseaseDetectedElif(condition) ==
  ~Contains(STR_PEST, Upper(condition)) /\ Contains(STR_DISEASE, Upper(condition))

\* "PEST" in condition.upper(), "DISEASE" in condition.upper()
PestDetected(condition) == Contains(STR_PEST, Upper(condition))
DiseaseDetected(condition) == Contains(STR_DISEASE, Upper(condition))

\* the test of the loop body: key or local name in content_upper
RecordMatches(item, content_upper) ==
  \/ Contains(Upper(Replace(item.key, "_", " ")), content_upper)
  \/ Contains(Upper(item.info.local_name), content_upper)

\* variant: the loop without its break -- the last matching item wins
ScanTableLast(table, i, content_upper) ==
  LET ms == {j \in i..Len(table) : RecordMatches(table[j], content_upper)}
  IN  IF ms = {} THEN 0 ELSE CHOOSE a \in ms : \A b \in ms : b <= a

\* for key, info in table.items(): ... break -- the index of the item the
\* loop stops at, 0 when it runs to the end
RECURSIVE ScanTable(_, _, _)
ScanTable(table, i, content_upper) ==
  IF i > Len(table) THEN 0
  ELSE IF RecordMatches(table[i], content_upper) THEN i
  ELSE ScanTable(table, i + 1, content_upper)

\* variant: a block that leaves recommendations an earlier block has set
MatchBlockKeepFirst(detected, table, content_upper, st) ==
  LET i == IF detected THEN ScanTable(table, 1, content_upper) ELSE 0
  IN  IF i = 0 THEN [recommendations |-> st.recommendations,
                     info |-> None,
                     natural_summary |-> st.natural_summary]
      ELSE [recommendations |-> IF st.recommendations = DefaultRecommendations
                                THEN table[i].info.control_methods
                                ELSE st.recommendations,
            info |-> table[i].info,
            natural_summary |->
              IF Len(st.natural_summary) < 50
              THEN st.natural_summary \o STR_ThisResembles \o table[i].info.local_name \o STR_Dot
              ELSE st.natural_summary]

\* One matching block: the state (recommendations, info, natural_summary)
\* after `if detected: for ... in table.items()`.
MatchBlock(detected, table, content_upper, st) ==
  LET i == IF detected THEN ScanTable(table, 1, content_upper) ELSE 0
  IN  IF i = 0 THEN [recommendations |-> st.recommendations,
                     info |-> None,
                     natural_summary |-> st.natural_summary]
      ELSE [recommendations |-> table[i].info.control_methods,
            info |-> table[i].info,
            natural_summary |->
              IF Len(st.natural_summary) < 50
              THEN st.natural_summary \o STR_ThisResembles \o table[i].info.local_name \o STR_Dot
              ELSE st.natural_summary]

\* variant: the length test written <= 10
HealthyBranchInclusive(pest_detected, disease_detected, condition, plant_type, st) ==
  IF ~pest_detected /\ ~disease_detected
  THEN [recommendations |-> HealthyRecommendations,
        natural_summary |->
          IF Contains(STR_healthy, Lower(condition)) /\ Len(st.natural_summary) <= 10
          THEN STR_The \o StrOf(plant_type) \o STR_LooksHealthy
          ELSE st.natural_summary]
  ELSE [recommendations |-> st.recommendations, natural_summary |-> st.natural_summary]

\* if not pest_detected and not disease_detected: ...
HealthyBranch(pest_detected, disease_detected, condition, plant_type, st) ==
  IF ~pest_detected /\ ~disease_detected
  THEN [recommendations |-> HealthyRecommendations,
        natural_summary |->
          IF Contains(STR_healthy, Lower(condition)) /\ Len(st.natural_summary) < 10
          THEN STR_The \o StrOf(plant_type) \o STR_LooksHealthy
          ELSE st.natural_summary]
  ELSE [recommendations |-> st.recommendations, natural_summary |-> st.natural_summary]

Severity(pest_detected, disease_detected) ==
  IF pest_detected \/ disease_detected THEN "Moderate" ELSE "None"

\* step 2 of the parser: the agricultural branch
ProcessAgriculturalData(data, pests, diseases) ==
  LET plant_type == Get(data, "plant_name", Str(STR_UnknownCrop))
      detected_issue == Get(data, "detected_issue", Str(<<>>))
      condition == Get(data, "condition", Str(STR_Unknown))
      natural_summary == Get(data, "natural_response", Str(<<>>))
  IN  IF ~IsStr(condition) THEN Raise("AttributeError")
      ELSE
        LET pest_detected == PestDetected(condition.v)
            disease_detected == DiseaseDetected(condition.v)
            content_upper == Upper(StrOf(detected_issue))
            needs_len == \/ pest_detected /\ ScanTable(pests, 1, content_upper) # 0
                         \/ disease_detected /\ ScanTable(diseases, 1, content_upper) # 0
                         \/ ~pest_detected /\ ~disease_detected
                            /\ Contains(STR_healthy, Lower(condition.v))
        IN  IF needs_len /\ ~IsStr(natural_summary) THEN Raise("TypeError")
            ELSE
              LET s0 == [recommendations |-> DefaultRecommendations,
                         natural_summary |-> IF IsStr(natural_summary) THEN natural_summary.v ELSE <<>>]
                  s1 == MatchBlock(pest_detected, pests, content_upper, s0)
                  s2 == MatchBlock(disease_detected, diseases, content_upper, s1)
                  s3 == HealthyBranch(pest_detected, disease_detected, condition.v, plant_type, s2)
              IN  Return([plant_type |-> plant_type,
                          pest_detected |-> pest_detected,
                          disease_detected |-> disease_detected,
                          health_status |-> condition,
                          severity |-> Severity(pest_detected, disease_detected),
                          pest_info |-> s1.info,
                          disease_info |-> s2.info,
                          recommendations |-> s3.recommendations,
                          sources |-> <<>>,
                          natural_summary |-> IF IsStr(natural_summary) THEN Str(s3.natural_summary)
                                              ELSE natural_summary])

\* the strict rejection gate, then the agricultural branch
RejectionGate(data, pests, diseases) ==
  LET is_agricultural == Get(data, "is_agricultural", Bool(FALSE))
      confidence == Get(data, "confidence_score", Num(100))
  IN  IF ~Truthy(is_agricultural) THEN Return(NonAgriculturalResult(data))
      ELSE IF ~Comparable(confidence) THEN Raise("TypeError")
      ELSE IF LessThan(confidence, 40) THEN Return(NonAgriculturalResult(data))
      ELSE ProcessAgriculturalData(data, pests, diseases)

\* the body of the parser's try block: what it returns or raises
ParseBody(c, pests, diseases) ==
  IF c.t # "str" THEN Raise("TypeError")
  ELSE LET json_match == RegexSearch(c.toks)
       IN  IF json_match = NoMatch THEN Raise("ValueError")
           ELSE IF ~JsonValid(json_match) THEN Raise("JSONDecodeError")
           ELSE RejectionGate(JsonLoads(json_match, c.m), pests, diseases)

\* except Exception: return self._get_fallback_analysis()
parse_llm_analysis(c, pests, diseases) ==
  LET body == ParseBody(c, pests, diseases)
  IN  IF body.exc # "" THEN get_fallback_analysis ELSE body.ret

(***************************************************************************)
(* The service: __init__ and analyze_image                                 *)
(***************************************************************************)

\* what ollama.chat may raise
TransportErrors == {"ConnectionError", "ResponseError"}

\* the texts whose results are compared across calls
ProbeTexts == {Text(FramedObject, SampleMembers),
               Text(<<"{", "}">>, SampleMembers),
               Text(<<"p">>, SampleMembers)}

\* no text is compared across calls
NoProbe == [t |-> "off"]

\* __init__ builds the two tables; no call is in progress
InitService ==
  /\ pc = "idle"
  /\ content = None
  /\ result = None
  /\ requests = 0
  /\ parses = 0
  /\ log = <<>>
  /\ pest_database = build_pest_database
  /\ disease_database = build_disease_database
  /\ probe_result = None

Init == InitService /\ probe = NoProbe

\* the service with one text's results compared across calls
InitProbe == InitService /\ probe \in ProbeTexts

\* analyze_image is entered: the prompt is built
analyze_image ==
  /\ pc = "idle"
  /\ pc' = "chat"
  /\ content' = None
  /\ result' = None
  /\ requests' = 0
  /\ parses' = 0
  /\ log' = <<>>
  /\ UNCHANGED <<pest_database, disease_database, probe, probe_result>>

\* ollama.chat raises
ollama_chat_raises ==
  /\ pc = "chat"
  /\ \E e \in TransportErrors : log' = <<"raised", e>>
  /\ requests' = requests + 1
  /\ pc' = "except"
  /\ UNCHANGED <<content, result, parses, pest_database, disease_database, probe, probe_result>>

\* ollama.chat returns a response without ['message']['content']
ollama_chat_malformed ==
  /\ pc = "chat"
  /\ log' = <<"raised", "KeyError">>
  /\ requests' = requests + 1
  /\ pc' = "except"
  /\ UNCHANGED <<content, result, parses, pest_database, disease_database, probe, probe_result>>

\* ollama.chat returns a response; content = response['message']['content']
ollama_chat_returns ==
  /\ pc = "chat"
  /\ content' \in Texts \cup {None}
  /\ requests' = requests + 1
  /\ pc' = "parse"
  /\ UNCHANGED <<result, parses, log, pest_database, disease_database, probe, probe_result>>

\* variant: the parser appends to the recommendations it returns, which are
\* the matched record's own control_methods list
call_parse_llm_analysis_aliasing ==
  /\ pc = "parse"
  /\ LET body == ParseBody(content, pest_database, disease_database)
     IN  log' = IF body.exc # "" THEN <<"JSON Parse error", body.exc>> ELSE log
  /\ result' = parse_llm_analysis(content, pest_database, disease_database)
  /\ pest_database' =
       [i \in 1..Len(pest_database) |->
          IF /\ "pest_info" \in DOMAIN result'
             /\ result'.pest_info = pest_database[i].info
             /\ Len(pest_database[i].info.control_methods) < 4
          THEN [pest_database[i] EXCEPT !.info.control_methods = @ \o <<"Consult your local technician.">>]
          ELSE pest_database[i]]
  /\ parses' = parses + 1
  /\ probe_result' = IF content = probe /\ probe_result = None THEN result' ELSE probe_result
  /\ pc' = "return"
  /\ UNCHANGED <<content, requests, disease_database, probe>>

\* return self._parse_llm_analysis(content)
call_parse_llm_analysis ==
  /\ pc = "parse"
  /\ LET body == ParseBody(content, pest_database, disease_database)
     IN  log' = IF body.exc # "" THEN <<"JSON Parse error", body.exc>> ELSE log
  /\ result' = parse_llm_analysis(content, pest_database, disease_database)
  /\ parses' = parses + 1
  /\ probe_result' = IF content = probe /\ probe_result = None THEN result' ELSE probe_result
  /\ pc' = "return"
  /\ UNCHANGED <<content, requests, pest_database, disease_database, probe>>

\* variant: the handler catches the transport errors only
analyze_image_except_transport ==
  /\ pc = "except"
  /\ IF log[2] \in TransportErrors
     THEN /\ log' = <<"Image analysis failed", log[2]>>
          /\ result' = get_fallback_analysis
          /\ pc' = "return"
     ELSE /\ pc' = "raised"
          /\ UNCHANGED <<log, result>>
  /\ UNCHANGED <<content, requests, parses, pest_database, disease_database, probe, probe_result>>

\* variant: the handler retries the request once before it gives up
analyze_image_except_retry ==
  /\ pc = "except"
  /\ IF requests < 2
     THEN /\ pc' = "chat"
          /\ UNCHANGED <<log, result>>
     ELSE /\ log' = <<"Image analysis failed", log[2]>>
          /\ result' = get_fallback_analysis
          /\ pc' = "return"
  /\ UNCHANGED <<content, requests, parses, pest_database, disease_database, probe, probe_result>>

\* except Exception as e: return self._get_fallback_analysis()
analyze_image_except ==
  /\ pc = "except"
  /\ log' = <<"Image analysis failed", log[2]>>
  /\ result' = get_fallback_analysis
  /\ pc' = "return"
  /\ UNCHANGED <<content, requests, parses, pest_database, disease_database, probe, probe_result>>

\* the caller has the result; the call's locals are gone
analyze_image_return ==
  /\ pc = "return"
  /\ pc' = "idle"
  /\ content' = None
  /\ result' = None
  /\ requests' = 0
  /\ parses' = 0
  /\ log' = <<>>
  /\ UNCHANGED <<pest_database, disease_database, probe, probe_result>>

Next ==
  \/ analyze_image
  \/ ollama_chat_raises
  \/ ollama_chat_malformed
  \/ ollama_chat_returns
  \/ call_parse_llm_analysis
  \/ analyze_image_except
  \/ analyze_image_return

Spec == Init /\ [][Next]_vars

SpecProbe == InitProbe /\ [][Next]_vars

(***************************************************************************)
(* Properties                                                              *)
(***************************************************************************)
EX_TheCornLooksHealthy == <<"T","h","e"," ","C","o","r","n"," ","l","o","o","k","s"," ","h","e","a","l","t","h","y","."," ","K","e","e","p"," ","u","p"," ","t","h","e"," ","g","o","o","d"," ","w","o","r","k","!">>
EX_TheUnknownCropLooksHealthy == <<"T","h","e"," ","U","n","k","n","o","w","n"," ","C","r","o","p"," ","l","o","o","k","s"," ","h","e","a","l","t","h","y","."," ","K","e","e","p"," ","u","p"," ","t","h","e"," ","g","o","o","d"," ","w","o","r","k","!">>
EX_Kurikong == <<"K","u","r","i","k","o","n","g">>
EX_Tungro == <<"T","u","n","g","r","o">>

\* analyze_image is about to hand its result to the caller
Returning == pc = "return"

\* ... and the result came from the parser, run on a text
Parsed == Returning /\ parses = 1 /\ content.t = "str"

\* position of the first "{" and of the last "}" of a text, 0 when it has none
FirstOpen(toks) ==
  IF \E i \in 1..Len(toks) : toks[i] = "{"
  THEN CHOOSE i \in 1..Len(toks) : toks[i] = "{" /\ \A j \in 1..(i - 1) : toks[j] # "{"
  ELSE 0
LastClose(toks) ==
  IF \E i \in 1..Len(toks) : toks[i] = "}"
  THEN CHOOSE i \in 1..Len(toks) : toks[i] = "}" /\ \A j \in (i + 1)..Len(toks) : toks[j] # "}"
  ELSE 0
HasPair(toks) == FirstOpen(toks) # 0 /\ FirstOpen(toks) < LastClose(toks)
Span(toks) == SubSeq(toks, FirstOpen(toks), LastClose(toks))

\* the text decodes to a JSON object, and the object it decodes to
Decodes == Parsed /\ HasPair(content.toks) /\ JsonValid(Span(content.toks))
Data == JsonLoads(Span(content.toks), content.m)

\* the three outcomes of a call
IsFallback(r) ==
  /\ DOMAIN r = {"plant_type", "pest_detected", "disease_detected", "health_status",
                 "natural_summary", "recommendations", "sources"}
  /\ r.plant_type = Str(STR_AnalysisFailed)
  /\ r.pest_detected = FALSE
  /\ r.disease_detected = FALSE
  /\ r.health_status = Str(STR_SystemError)
  /\ r.recommendations = <<>>
  /\ r.sources = <<>>
IsNonAgricultural(r, data) ==
  /\ DOMAIN r = {"plant_type", "pest_detected", "disease_detected", "health_status",
                 "severity", "recommendations", "sources", "natural_summary"}
  /\ r.plant_type = Str(STR_NonAgriculturalObject)
  /\ r.pest_detected = FALSE
  /\ r.disease_detected = FALSE
  /\ r.health_status = Str(STR_NotAgricultural)
  /\ r.severity = "None"
  /\ r.recommendations = <<"Please upload a clear photo of a crop, plant, or pest.">>
  /\ r.sources = <<>>
  /\ r.natural_summary = IF "natural_response" \in DOMAIN data
                         THEN data["natural_response"]
                         ELSE Str(STR_Apology)
Accepted == Parsed /\ "pest_info" \in DOMAIN result

\* case-insensitive search written out position by position
HasWord(s, w) ==
  \E i \in 1..(Len(s) - Len(w) + 1) : \A k \in 1..Len(w) : ToUpper(s[i + k - 1]) = ToUpper(w[k])

\* a knowledge-base item matches a detected_issue
ItemMatches(item, issue) ==
  \/ HasWord(issue, Replace(item.key, "_", " "))
  \/ HasWord(issue, item.info.local_name)
\* the first item of a table, in insertion order, that matches; 0 when none does
FirstMatch(table, issue) ==
  IF \E i \in 1..Len(table) : ItemMatches(table[i], issue)
  THEN CHOOSE i \in 1..Len(table) :
         ItemMatches(table[i], issue) /\ \A j \in 1..(i - 1) : ~ItemMatches(table[j], issue)
  ELSE 0
DetectedIssue == IF "detected_issue" \in DOMAIN Data THEN Data["detected_issue"].v ELSE <<>>

C2_StrictRejectionGate ==
  Decodes =>
    LET agri == "is_agricultural" \in DOMAIN Data /\ Data["is_agricultural"] = Bool(TRUE)
        conf == Get(Data, "confidence_score", Absent)
    IN  /\ ~agri => IsNonAgricultural(result, Data)
        /\ (agri /\ conf.t = "num" /\ conf.v < 40) => IsNonAgricultural(result, Data)
        /\ (agri /\ (conf = Absent \/ (conf.t = "num" /\ conf.v >= 40))) =>
             /\ ~IsNonAgricultural(result, Data)
             /\ result.plant_type # Str(STR_NonAgriculturalObject)

\* C2 witness: is_agricultural true with confidence_score 39 is rejected
C2_Witness ==
  /\ Decodes /\ Data # <<>>
  /\ Get(Data, "is_agricultural", Absent) = Bool(TRUE)
  /\ Get(Data, "confidence_score", Absent) = Num(39)
  /\ Get(Data, "condition", Absent) = Str(IN_PestDetected)
  /\ IsNonAgricultural(result, Data)

C4_SeverityInEveryResult ==
  Returning =>
    /\ "severity" \in DOMAIN result
    /\ result.severity = IF result.pest_detected \/ result.disease_detected
                         THEN "Moderate" ELSE "None"

\* C5: in an accepted result pest_info is the first record of the pest table,
\* in insertion order, whose spaced identifier or local name occurs in
\* detected_issue regardless of case, and is absent when no record matches or
\* pest_detected is false; likewise disease_info over the disease table.
C5_FirstMatchWins ==
  Accepted =>
    LET p == FirstMatch(build_pest_database, DetectedIssue)
        d == FirstMatch(build_disease_database, DetectedIssue)
    IN  /\ result.pest_info = IF result.pest_detected /\ p # 0
                              THEN build_pest_database[p].info ELSE None
        /\ result.disease_info = IF result.disease_detected /\ d # 0
                                 THEN build_disease_database[d].info ELSE None
        /\ (result.pest_detected /\ DetectedIssue = IN_KurikongStemBorer) =>
             result.pest_info.local_name = EX_Kurikong
        /\ (result.disease_detected /\ DetectedIssue = IN_TungroKuyog) =>
             result.disease_info.local_name = EX_Tungro

\* C5 witness: detected_issue holds stem_borer's identifier and the local
\* name of mango_cecid_fly, which comes earlier in the table
C5_Witness ==
  /\ Accepted
  /\ result.pest_detected
  /\ DetectedIssue = IN_KurikongStemBorer
  /\ ItemMatches(build_pest_database[7], DetectedIssue)
  /\ result.pest_info = build_pest_database[6].info

\* C6: in an accepted result pest_detected is true exactly when condition
\* contains "PEST" and disease_detected exactly when it contains "DISEASE",
\* regardless of case; both are true for "Pest and Disease Detected" and both
\* false when condition is absent.
C6_IndependentFlags ==
  Accepted =>
    /\ result.pest_detected = HasWord(result.health_status.v, <<"P","E","S","T">>)
    /\ result.disease_detected = HasWord(result.health_status.v, <<"D","I","S","E","A","S","E">>)
    /\ result.health_status = Str(IN_PestAndDisease) =>
         result.pest_detected /\ result.disease_detected
    /\ "condition" \notin DOMAIN Data =>
         /\ result.health_status = Str(STR_Unknown)
         /\ ~result.pest_detected /\ ~result.disease_detected

\* C6 witness: both flags true for "Pest and Disease Detected"
C6_Witness ==
  /\ Accepted
  /\ result.health_status = Str(IN_PestAndDisease)
  /\ result.pest_detected /\ result.disease_detected

\* C7: the parser's result for a text is the result it gave for the same
\* text before, whatever calls ran in between, and no call changes the pest
\* or the disease table.
C7_Idempotent ==
  /\ pest_database = build_pest_database
  /\ disease_database = build_disease_database
  /\ (Returning /\ parses = 1 /\ content = probe) => result = probe_result

\* C7 witness: the framed sample text is parsed again after an earlier parse
\* of it gave a result with a matched pest record
C7_Witness ==
  /\ pc = "parse"
  /\ content = probe
  /\ probe = Text(FramedObject, SampleMembers)
  /\ probe_result # None
  /\ probe_result.pest_info # None

\* C8: a call issues exactly one request and never retries: after a failed
\* request it returns the fallback without running the parser; after a
\* successful one the parser runs once and its result is the call's result.
C8_OneRequestNoRetry ==
  /\ requests <= 1
  /\ parses <= 1
  /\ pc \in {"parse", "except", "return"} => requests = 1
  /\ pc = "except" => parses = 0
  /\ Returning =>
       /\ (log # <<>> /\ log[1] = "Image analysis failed") => parses = 0 /\ IsFallback(result)
       /\ (log = <<>> \/ log[1] # "Image analysis failed") =>
            /\ parses = 1
            /\ result = parse_llm_analysis(content, build_pest_database, build_disease_database)

\* C8 witness: the request failed and the call returns the fallback
C8_Witness ==
  /\ Returning
  /\ log = <<"Image analysis failed", "ConnectionError">>
  /\ requests = 1
  /\ parses = 0
  /\ IsFallback(result)

\* C9: in an accepted result with neither flag set, recommendations are the
\* good-practice default, pest_info and disease_info are absent, severity is
\* "None", and natural_summary is the healthy template exactly when
\* condition contains "healthy" regardless of case and natural_response is
\* shorter than 10 characters (absent and empty included); otherwise it is
\* natural_response unchanged.
C9_HealthyBranch ==
  (Accepted /\ ~result.pest_detected /\ ~result.disease_detected) =>
    LET response == Get(Data, "natural_response", Str(<<>>))
        plant == Get(Data, "plant_name", Str(STR_UnknownCrop))
        short == response.t = "str" /\ Len(response.v) < 10
        healthy == HasWord(result.health_status.v, <<"h","e","a","l","t","h","y">>)
    IN  /\ result.recommendations =
             <<"Continue Good Agricultural Practices (GAP).", "Regular monitoring.">>
        /\ result.pest_info = None
        /\ result.disease_info = None
        /\ result.severity = "None"
        /\ (healthy /\ short) =>
             result.natural_summary =
               IF plant = Str(IN_Corn) THEN Str(EX_TheCornLooksHealthy)
               ELSE Str(EX_TheUnknownCropLooksHealthy)
        /\ ~(healthy /\ short) => result.natural_summary = response

\* C9 witness: condition "Healthy" with an empty natural_response
C9_Witness ==
  /\ Accepted
  /\ result.health_status = Str(IN_Healthy)
  /\ Get(Data, "natural_response", Absent) = Str(<<>>)
  /\ result.natural_summary = Str(EX_TheCornLooksHealthy)

\* C10: with both flags set and a match in both tables, recommendations are
\* the disease record's control_methods and pest_info and disease_info are
\* both populated; with a match in one table only they are that record's
\* control_methods; they are the "Monitor the crop closely." default only
\* when neither table gives a match.
C10_DiseaseOverwritesPest ==
  (Accepted /\ (result.pest_detected \/ result.disease_detected)) =>
    LET p == IF result.pest_detected THEN FirstMatch(build_pest_database, DetectedIssue) ELSE 0
        d == IF result.disease_detected THEN FirstMatch(build_disease_database, DetectedIssue) ELSE 0
    IN  /\ result.recommendations =
             IF d # 0 THEN build_disease_database[d].info.control_methods
             ELSE IF p # 0 THEN build_pest_database[p].info.control_methods
             ELSE <<"Monitor the crop closely.", "Consult your local technician.">>
        /\ (p # 0 /\ d # 0) => result.pest_info # None /\ result.disease_info # None
        /\ (result.pest_detected /\ result.disease_detected /\ DetectedIssue = IN_ArmywormTungro) =>
             result.recommendations = <<"Plant resistant varieties (Matatag lines)",
                                        "Control leafhopper vectors",
                                        "Roguing (removal) of infected plants">>

\* C10 witness: armyworm and tungro both match under "Pest and Disease Detected"
C10_Witness ==
  /\ Accepted
  /\ result.pest_detected /\ result.disease_detected
  /\ DetectedIssue = IN_ArmywormTungro
  /\ result.pest_info = build_pest_database[1].info
  /\ result.disease_info = build_disease_database[2].info
  /\ result.recommendations = build_disease_database[2].info.control_methods

====
